---------------------------- MODULE Spec2Model ----------------------------
(***************************************************************************)
(* Model of uuid25.cjs: the Uuid25 value type, its parsers and formatters, *)
(* the digit decoders and the word-chunked base converter convertBase.     *)
(*                                                                         *)
(* Strings are sequences of UTF-16 code units (integers).  JavaScript      *)
(* numbers that can exceed 31 bits (wordBase and carry in convertBase) are *)
(* kept exactly as five little-endian limbs of 12 bits; claim C9 checks    *)
(* that they never exceed Number.MAX_SAFE_INTEGER, the range in which      *)
(* double arithmetic is exact.                                             *)
(***************************************************************************)
EXTENDS Integers, Sequences, FiniteSets, TLC

VARIABLES
    cb,      \* the activation record of one convertBase call, stepwise
    pc,      \* how far the caller of the library has come
    via,     \* the call that made orig
    arg,     \* the argument of that call
    orig,    \* its result: a Uuid25 or the error thrown
    fmt,     \* the method called on orig
    res,     \* its result
    text,    \* the string handed to parse
    edited,  \* whether text differs from what the formatter returned
    inst,    \* the result of parse(text)
    fmt2,    \* the method called on inst
    res2,    \* its result
    arg2,    \* a second byte array
    orig2    \* the result of fromBytes on it

vars == <<cb, pc, via, arg, orig, fmt, res, text, edited, inst, fmt2, res2,
          arg2, orig2>>

----------------------------------------------------------------------------
(* Exact non-negative numbers: <<l1, .., l5>> stands for                   *)
(* l1 + l2*2^12 + l3*2^24 + l4*2^36 + l5*2^48 (the top limb is open).      *)

NumNorm(t) ==
    LET c1 == t[1]
        c2 == t[2] + (c1 \div 4096)
        c3 == t[3] + (c2 \div 4096)
        c4 == t[4] + (c3 \div 4096)
        c5 == t[5] + (c4 \div 4096)
    IN  <<c1 % 4096, c2 % 4096, c3 % 4096, c4 % 4096, c5>>

NumOf(n) == NumNorm(<<n, 0, 0, 0, 0>>)

NumZero == <<0, 0, 0, 0, 0>>

NumMul(a, k) == NumNorm(<<a[1] * k, a[2] * k, a[3] * k, a[4] * k, a[5] * k>>)

NumAdd(a, b) ==
    NumNorm(<<a[1] + b[1], a[2] + b[2], a[3] + b[3], a[4] + b[4], a[5] + b[5]>>)

\* Math.trunc(a / k) and the remainder a - quo * k, for 1 <= k <= 65536
NumDivMod(a, k) ==
    LET x5 == a[5]
        x4 == (x5 % k) * 4096 + a[4]
        x3 == (x4 % k) * 4096 + a[3]
        x2 == (x3 % k) * 4096 + a[2]
        x1 == (x2 % k) * 4096 + a[1]
    IN  [quo |-> <<x1 \div k, x2 \div k, x3 \div k, x4 \div k, x5 \div k>>,
         rem |-> x1 % k]

NumLeq(a, b) ==
    \/ a = b
    \/ \E j \in 1..5 : a[j] < b[j] /\ \A m \in (j + 1)..5 : a[m] = b[m]

\* Number.MAX_SAFE_INTEGER = 2^53 - 1
MAX_SAFE_INTEGER == <<4095, 4095, 4095, 4095, 31>>

----------------------------------------------------------------------------
(* convertBase, one step of the code at a time.                            *)

Zeros(n) == [k \in 1..n |-> 0]

CBStart(src, srcBase, dstBase, dstSize) ==
    [pc |-> "entry", src |-> src, srcBase |-> srcBase, dstBase |-> dstBase,
     dstSize |-> dstSize, wordLen |-> 0, wordBase |-> NumZero,
     dst |-> <<>>, dstUsed |-> 0, wordHead |-> 0, carry |-> NumZero,
     i |-> 0, err |-> ""]

CBFail(s, msg) == [s EXCEPT !.pc = "fail", !.err = msg]

\* assert(2 <= srcBase && ...), let wordLen = 1, let wordBase = srcBase
CBEntry(s) ==
    IF 2 <= s.srcBase /\ s.srcBase <= 256 /\ 2 <= s.dstBase /\ s.dstBase <= 256
    THEN [s EXCEPT !.pc = "wordsize", !.wordLen = 1,
                   !.wordBase = NumOf(s.srcBase)]
    ELSE CBFail(s, "invalid base")

\* WordFits with the divisor srcBase in place of srcBase * dstBase
WordFitsSrcOnly(wordBase, srcBase, dstBase) ==
    NumLeq(wordBase, NumDivMod(MAX_SAFE_INTEGER, srcBase).quo)

\* the condition of the while loop that chooses the word size
WordFits(wordBase, srcBase, dstBase) ==
    NumLeq(wordBase, NumDivMod(MAX_SAFE_INTEGER, srcBase * dstBase).quo)

\* one test of the while loop and, when it holds, one pass of its body
CBWordSize(s) ==
    IF WordFits(s.wordBase, s.srcBase, s.dstBase)
    THEN [s EXCEPT !.wordLen = @ + 1, !.wordBase = NumMul(@, s.srcBase)]
    ELSE [s EXCEPT !.pc = "alloc"]

\* CBAlloc without `wordHead -= wordLen`
CBAllocNoShortWord(s) ==
    IF Len(s.src) = 0
    THEN [s EXCEPT !.pc = "done", !.dst = Zeros(s.dstSize)]
    ELSE IF ~(s.dstSize > 0)
    THEN CBFail([s EXCEPT !.dst = Zeros(s.dstSize)], "too small dst")
    ELSE [s EXCEPT !.pc = "outer", !.dst = Zeros(s.dstSize),
                   !.dstUsed = s.dstSize - 1,
                   !.wordHead = Len(s.src) % s.wordLen]

\* new Uint8Array(dstSize), the empty-src return, assert(dstSize > 0),
\* dstUsed and the head of the (possibly short) first word
CBAlloc(s) ==
    IF Len(s.src) = 0
    THEN [s EXCEPT !.pc = "done", !.dst = Zeros(s.dstSize)]
    ELSE IF ~(s.dstSize > 0)
    THEN CBFail([s EXCEPT !.dst = Zeros(s.dstSize)], "too small dst")
    ELSE [s EXCEPT !.pc = "outer", !.dst = Zeros(s.dstSize),
                   !.dstUsed = s.dstSize - 1,
                   !.wordHead = IF (Len(s.src) % s.wordLen) > 0
                                THEN (Len(s.src) % s.wordLen) - s.wordLen
                                ELSE Len(s.src) % s.wordLen]

\* the test of the outer for loop; let carry = 0 and the start of the word
CBOuter(s) ==
    IF s.wordHead < Len(s.src)
    THEN [s EXCEPT !.pc = "acc", !.carry = NumZero,
                   !.i = IF s.wordHead < 0 THEN 0 ELSE s.wordHead]
    ELSE [s EXCEPT !.pc = "done"]

\* one pass of the loop that reads a word: carry = carry * srcBase + src[i]
CBAccumulate(s) ==
    IF s.i < s.wordHead + s.wordLen
    THEN IF s.src[s.i + 1] < s.srcBase
         THEN [s EXCEPT !.carry = NumAdd(NumMul(@, s.srcBase),
                                         NumOf(s.src[s.i + 1])),
                        !.i = @ + 1]
         ELSE CBFail(s, "invalid src digit")
    ELSE [s EXCEPT !.pc = "sweep", !.i = s.dstSize - 1]

\* carry + dst[i] * wordBase, the value the sweep divides by dstBase
SweepSum(s) == NumAdd(s.carry, NumMul(s.wordBase, s.dst[s.i + 1]))

\* dst[i] = carry - quo * dstBase (stored in a Uint8Array), carry = quo, and
\* the break once carry and the digits further left are all zero
CBStore(s, qr) ==
    IF qr.quo = NumZero /\ s.i <= s.dstUsed
    THEN [s EXCEPT !.pc = "check", !.dst[s.i + 1] = qr.rem % 256,
                   !.carry = qr.quo, !.dstUsed = s.i]
    ELSE [s EXCEPT !.dst[s.i + 1] = qr.rem % 256, !.carry = qr.quo,
                   !.i = @ - 1]

\* one pass of the loop that fills dst from right to left
CBSweep(s) ==
    IF s.i >= 0
    THEN CBStore(s, NumDivMod(SweepSum(s), s.dstBase))
    ELSE [s EXCEPT !.pc = "check"]

\* assert(carry === 0, "too small dst"); wordHead += wordLen
CBCheck(s) ==
    IF s.carry = NumZero
    THEN [s EXCEPT !.pc = "outer", !.wordHead = @ + s.wordLen]
    ELSE CBFail(s, "too small dst")

CBStep(s) ==
    CASE s.pc = "entry"    -> CBEntry(s)
      [] s.pc = "wordsize" -> CBWordSize(s)
      [] s.pc = "alloc"    -> CBAlloc(s)
      [] s.pc = "outer"    -> CBOuter(s)
      [] s.pc = "acc"      -> CBAccumulate(s)
      [] s.pc = "sweep"    -> CBSweep(s)
      [] s.pc = "check"    -> CBCheck(s)

RECURSIVE CBRun(_)
CBRun(s) == IF s.pc \in {"done", "fail"} THEN s ELSE CBRun(CBStep(s))

\* what the call gives its caller: the array returned or the assertion failed
CBResult(s) ==
    IF s.pc = "done" THEN [ok |-> TRUE, dst |-> s.dst, err |-> ""]
    ELSE [ok |-> FALSE, dst |-> <<>>, err |-> s.err]

\* the call convertBase(src, srcBase, dstBase, dstSize) as a whole
convertBase(src, srcBase, dstBase, dstSize) ==
    CBResult(CBRun(CBStart(src, srcBase, dstBase, dstSize)))

----------------------------------------------------------------------------
(* Strings and what the code does with them.                               *)

\* the value `undefined`; no string, since code units are never negative
Undefined == <<-1>>

\* a < b and a <= b on strings: by code unit, a proper prefix is smaller
RECURSIVE StrLess(_, _)
StrLess(a, b) ==
    IF b = <<>> THEN FALSE
    ELSE IF a = <<>> THEN TRUE
    ELSE IF Head(a) # Head(b) THEN Head(a) < Head(b)
    ELSE StrLess(Tail(a), Tail(b))

StrLeq(a, b) == a = b \/ StrLess(a, b)

\* String.prototype.toLowerCase, on the code units below 128
toLowerCase(s) == [k \in 1..Len(s) |-> IF s[k] \in 65..90 THEN s[k] + 32 ELSE s[k]]

\* String.prototype.charAt: the empty string outside the string
charAt(digits, e) == IF 0 <= e /\ e < Len(digits) THEN <<digits[e + 1]>> ELSE <<>>

RECURSIVE Concat(_)
Concat(ss) == IF ss = <<>> THEN <<>> ELSE Head(ss) \o Concat(Tail(ss))

\* the loops `for (const e of digitValues) buffer += digits.charAt(e)`
EncodeDigits(digitValues, digits) ==
    Concat([k \in 1..Len(digitValues) |-> charAt(digits, digitValues[k])])

\* the classes [0-9A-Za-z] (also [0-9a-z] under /i) and [0-9a-f] under /i
Alnum == (48..57) \cup (65..90) \cup (97..122)

HexDigit == (48..57) \cup (65..70) \cup (97..102)

\* the code units lo..hi of s all belong to the class
AllIn(s, lo, hi, class) == \A k \in lo..hi : s[k] \in class

\* ([0-9a-f]{8})-([0-9a-f]{4})-([0-9a-f]{4})-([0-9a-f]{4})-([0-9a-f]{12}) under
\* /i, matched against the 36 code units of s that follow offset off
MatchGroups(s, off) ==
    /\ AllIn(s, off + 1, off + 8, HexDigit) /\ s[off + 9] = 45
    /\ AllIn(s, off + 10, off + 13, HexDigit) /\ s[off + 14] = 45
    /\ AllIn(s, off + 15, off + 18, HexDigit) /\ s[off + 19] = 45
    /\ AllIn(s, off + 20, off + 23, HexDigit) /\ s[off + 24] = 45
    /\ AllIn(s, off + 25, off + 36, HexDigit)

\* .slice(1, 6).join("") of such a match
JoinGroups(s, off) ==
    SubSeq(s, off + 1, off + 8) \o SubSeq(s, off + 10, off + 13)
        \o SubSeq(s, off + 15, off + 18) \o SubSeq(s, off + 20, off + 23)
        \o SubSeq(s, off + 25, off + 36)

----------------------------------------------------------------------------
(* Results: a Uuid25 instance, a returned string or byte array, or the     *)
(* error that was thrown.                                                  *)

Thrown(kind, msg) == [kind |-> kind, value |-> <<>>, msg |-> msg]

Returned(kind, value) == [kind |-> kind, value |-> value, msg |-> ""]

\* assert(false, msg): throw new Error("Assertion failed: " + msg)
assert(msg) == Thrown("Error", msg)

newParseError == Thrown("SyntaxError", "could not parse a UUID string")

\* "f5lxx1zz5pnorynqglhzmsp33"
MAX == <<102, 53, 108, 120, 120, 49, 122, 122, 53, 112, 110, 111, 114, 121, 110, 113, 103, 108, 104, 122, 109, 115, 112, 51, 51>>

\* the alphabet with the letters before the digits
Base36LettersFirst == <<97, 98, 99, 100, 101, 102, 103, 104, 105, 106, 107, 108, 109, 110, 111, 112, 113, 114, 115, 116, 117, 118, 119, 120, 121, 122, 48, 49, 50, 51, 52, 53, 54, 55, 56, 57>>

\* "0123456789abcdefghijklmnopqrstuvwxyz"
Base36Digits == <<48, 49, 50, 51, 52, 53, 54, 55, 56, 57, 97, 98, 99, 100, 101, 102, 103, 104, 105, 106, 107, 108, 109, 110, 111, 112, 113, 114, 115, 116, 117, 118, 119, 120, 121, 122>>

\* "0123456789abcdef"
HexDigits == <<48, 49, 50, 51, 52, 53, 54, 55, 56, 57, 97, 98, 99, 100, 101, 102>>

\* "0123456789ABCDEFGHJKMNPQRSTVWXYZ"
CrockfordDigits == <<48, 49, 50, 51, 52, 53, 54, 55, 56, 57, 65, 66, 67, 68, 69, 70, 71, 72, 74, 75, 77, 78, 80, 81, 82, 83, 84, 86, 87, 88, 89, 90>>

\* new Uuid25(value)
Uuid25(value) == Returned("Uuid25", value)

----------------------------------------------------------------------------
(* The digit decoders.                                                     *)

DECODE_MAP(code) ==
    IF code \in 48..57 THEN code - 48
    ELSE IF code \in 65..90 THEN code - 55
    ELSE IF code \in 97..122 THEN code - 87
    ELSE 127

\* the assertion on every decoded digit, and the array returned
Decoded(digitValues, base, msg) ==
    IF \E k \in 1..Len(digitValues) : ~(digitValues[k] < base)
    THEN [ok |-> FALSE, dst |-> <<>>, err |-> msg]
    ELSE [ok |-> TRUE, dst |-> digitValues, err |-> ""]

decodeDigitChars(digitChars, base) ==
    IF ~(2 <= base /\ base <= 36) THEN [ok |-> FALSE, dst |-> <<>>, err |-> "invalid base"]
    ELSE Decoded([k \in 1..Len(digitChars) |-> DECODE_MAP(digitChars[k]) % 256],
                 base, "invalid digit character")

CROCKFORD_DECODE_MAP(code) ==
    IF code \in 48..57 THEN code - 48
    ELSE IF code \in 65..72 THEN code - 55
    ELSE IF code \in 97..104 THEN code - 87
    ELSE IF code \in {74, 106} THEN 18
    ELSE IF code \in {75, 107} THEN 19
    ELSE IF code \in {77, 109} THEN 20
    ELSE IF code \in {78, 110} THEN 21
    ELSE IF code \in 80..84 THEN code - 58
    ELSE IF code \in 112..116 THEN code - 90
    ELSE IF code \in 86..90 THEN code - 59
    ELSE IF code \in 118..122 THEN code - 91
    ELSE IF code \in {73, 105, 76, 108} THEN 1
    ELSE IF code \in {79, 111} THEN 0
    ELSE 127

\* decodeCrockfordChars with the digits 0-9a-v of decodeDigitChars
decodeBase32HexChars(digitChars) == decodeDigitChars(digitChars, 32)

decodeCrockfordChars(digitChars) ==
    Decoded([k \in 1..Len(digitChars) |->
                IF digitChars[k] < 128 THEN CROCKFORD_DECODE_MAP(digitChars[k])
                ELSE 127],
            32, "invalid Crockford Base32 character")

----------------------------------------------------------------------------
(* Uuid25: construction.                                                   *)

\* Bounded without the assertion
BoundedUnchecked(buffer) == Uuid25(buffer)

\* assert(buffer <= Uuid25.MAX, "128-bit overflow"); new Uuid25(buffer)
Bounded(buffer) ==
    IF StrLeq(buffer, MAX) THEN Uuid25(buffer) ELSE assert("128-bit overflow")

fromDigitValues(digitValues) ==
    IF Len(digitValues) # 25 THEN assert("invalid length of digit value array")
    ELSE IF \E k \in 1..25 : ~(digitValues[k] < Len(Base36Digits))
    THEN assert("invalid digit value")
    ELSE Bounded(EncodeDigits(digitValues, Base36Digits))

\* Uuid25.fromDigitValues(r), r the outcome of a convertBase call
FromConverted(r) == IF r.ok THEN fromDigitValues(r.dst) ELSE assert(r.err)

\* convertBase(src, srcBase, 36, 25), src the outcome of a decoder call
Project(src, srcBase) ==
    IF src.ok THEN convertBase(src.dst, srcBase, 36, 25) ELSE src

fromBytes(uuidBytes) ==
    IF Len(uuidBytes) # 16
    THEN Thrown("TypeError", "the length of byte array must be 16")
    ELSE FromConverted(convertBase(uuidBytes, 256, 36, 25))

parseUuid25(uuidString) ==
    IF Len(uuidString) = 25 /\ AllIn(uuidString, 1, 25, Alnum)
                            /\ StrLeq(toLowerCase(uuidString), MAX)
    THEN Uuid25(toLowerCase(uuidString))
    ELSE newParseError

parseHexImpl(uuidString) ==
    IF uuidString = Undefined THEN newParseError
    ELSE FromConverted(Project(decodeDigitChars(uuidString, 16), 16))

\* parseHex without the test of the pattern
parseHexUnchecked(uuidString) == parseHexImpl(uuidString)

parseHex(uuidString) ==
    parseHexImpl(IF Len(uuidString) = 32 /\ AllIn(uuidString, 1, 32, HexDigit)
                 THEN uuidString ELSE Undefined)

parseHyphenated(uuidString) ==
    parseHexImpl(IF Len(uuidString) = 36 /\ MatchGroups(uuidString, 0)
                 THEN JoinGroups(uuidString, 0) ELSE Undefined)

parseBraced(uuidString) ==
    parseHexImpl(IF /\ Len(uuidString) = 38
                    /\ uuidString[1] = 123 /\ uuidString[38] = 125
                    /\ MatchGroups(uuidString, 1)
                 THEN JoinGroups(uuidString, 1) ELSE Undefined)

\* "urn:uuid:"
UrnPrefix == <<117, 114, 110, 58, 117, 117, 105, 100, 58>>

\* parseUrn with the prefix matched as it is written
parseUrnCaseSensitive(uuidString) ==
    parseHexImpl(IF /\ Len(uuidString) = 45
                    /\ SubSeq(uuidString, 1, 9) = UrnPrefix
                    /\ MatchGroups(uuidString, 9)
                 THEN JoinGroups(uuidString, 9) ELSE Undefined)

parseUrn(uuidString) ==
    parseHexImpl(IF /\ Len(uuidString) = 45
                    /\ toLowerCase(SubSeq(uuidString, 1, 9)) = UrnPrefix
                    /\ MatchGroups(uuidString, 9)
                 THEN JoinGroups(uuidString, 9) ELSE Undefined)

parseCrockford(uuidString) ==
    IF ~(Len(uuidString) = 26 /\ AllIn(uuidString, 1, 26, Alnum)) THEN newParseError
    ELSE FromConverted(Project(decodeCrockfordChars(uuidString), 32))

parse(uuidString) ==
    CASE Len(uuidString) = 25 -> parseUuid25(uuidString)
      [] Len(uuidString) = 26 -> parseCrockford(uuidString)
      [] Len(uuidString) = 32 -> parseHex(uuidString)
      [] Len(uuidString) = 36 -> parseHyphenated(uuidString)
      [] Len(uuidString) = 38 -> parseBraced(uuidString)
      [] Len(uuidString) = 45 -> parseUrn(uuidString)
      [] OTHER -> newParseError

----------------------------------------------------------------------------
(* Uuid25: conversion to bytes and strings; `value` is this.value.         *)

\* convertBase(src, 36, dstBase, dstSize), src the outcome of the decoder call
Reprojected(src, dstBase, dstSize) ==
    IF src.ok THEN convertBase(src.dst, 36, dstBase, dstSize) ELSE src

\* convertBase(decodeDigitChars(this.value, 36), 36, dstBase, dstSize)
Reproject(value, dstBase, dstSize) ==
    Reprojected(decodeDigitChars(value, 36), dstBase, dstSize)

\* the digits r of a convertBase call, written with the alphabet digits
Encoded(r, digits) ==
    IF r.ok THEN Returned("string", EncodeDigits(r.dst, digits)) ELSE assert(r.err)

BytesOf(r) == IF r.ok THEN Returned("bytes", r.dst) ELSE assert(r.err)

toBytes(value) == BytesOf(Reproject(value, 256, 16))

toHex(value) == Encoded(Reproject(value, 16, 32), HexDigits)

\* the lower-case class [0-9a-f] of the formatter's pattern
LowerHexDigit == (48..57) \cup (97..102)

\* /^([0-9a-f]{8})([0-9a-f]{4})([0-9a-f]{4})([0-9a-f]{4})([0-9a-f]{12})$/
\* .exec(h).slice(1, 6).join("-"), h the outcome of this.toHex()
Hyphenate(h) ==
    IF h.kind # "string" THEN h
    ELSE IF Len(h.value) = 32 /\ AllIn(h.value, 1, 32, LowerHexDigit)
    THEN Returned("string",
             SubSeq(h.value, 1, 8) \o <<45>> \o SubSeq(h.value, 9, 12) \o <<45>>
                 \o SubSeq(h.value, 13, 16) \o <<45>> \o SubSeq(h.value, 17, 20)
                 \o <<45>> \o SubSeq(h.value, 21, 32))
    ELSE Thrown("TypeError", "exec returned null")

toHyphenated(value) == Hyphenate(toHex(value))

\* before + h + after, h the outcome of this.toHyphenated()
Wrap(before, h, after) ==
    IF h.kind # "string" THEN h ELSE Returned("string", before \o h.value \o after)

toBraced(value) == Wrap(<<123>>, toHyphenated(value), <<125>>)

toUrn(value) == Wrap(UrnPrefix, toHyphenated(value), <<>>)

toCrockford(value) == Encoded(Reproject(value, 32, 26), CrockfordDigits)

toString(value) == Returned("string", value)

----------------------------------------------------------------------------
(* The inputs.                                                             *)

\* how many byte arrays the callers draw from
NumSeeds == 6

\* the UUIDs of the documentation, then a family of further byte arrays
DocSeeds ==
    <<[k \in 1..16 |-> 0],
      [k \in 1..16 |-> 255],
      \* e7a1d63b-7117-4423-8988-afcf12161878
      <<231, 161, 214, 59, 113, 23, 68, 35, 137, 136, 175, 207, 18, 22, 24, 120>>,
      \* 8da942a4-1fbe-4ca6-852c-95c473229c7d
      <<141, 169, 66, 164, 31, 190, 76, 166, 133, 44, 149, 196, 115, 34, 156, 125>>,
      \* 40eb9860-cf3e-45e2-a90e-b82236ac806c
      <<64, 235, 152, 96, 207, 62, 69, 226, 169, 14, 184, 34, 54, 172, 128, 108>>>>

Seed(n) ==
    IF n <= Len(DocSeeds) THEN DocSeeds[n]
    ELSE [k \in 1..16 |-> (n * n * 31 + k * n * 7 + k * k) % 256]

Seeds == {Seed(n) : n \in 1..NumSeeds}

\* arrays fromBytes is called with: the seeds, one of the wrong length and
\* a plain array that holds a number that is no byte
ByteInputs ==
    Seeds \cup {SubSeq(Seed(2), 1, 15), [Seed(1) EXCEPT ![16] = 256]}

\* digit arrays fromDigitValues is called with
DigitInputs ==
    {[k \in 1..25 |-> 0], [k \in 1..25 |-> 35], [k \in 1..24 |-> 1],
     [[k \in 1..25 |-> 7] EXCEPT ![3] = 36],
     [[k \in 1..25 |-> 7] EXCEPT ![25] = -1],
     <<15, 5, 21, 33, 33, 1, 35, 35, 5, 25, 23, 24, 27, 34, 23, 26, 16, 21, 17, 35, 22, 28, 25, 3, 3>>,
     [<<15, 5, 21, 33, 33, 1, 35, 35, 5, 25, 23, 24, 27, 34, 23, 26, 16, 21, 17, 35, 22, 28, 25, 3, 3>> EXCEPT ![25] = 4]}

\* strings the constructor is called with
ConstructorInputs ==
    {MAX, [k \in 1..25 |-> 122], <<>>, SubSeq(MAX, 1, 24), toLowerCase(<<78, 79>>)}

\* strings parse is called with as they are
RawStrings == {
    \* "f5lxx1zz5pnorynqglhzmsp33"
    <<102, 53, 108, 120, 120, 49, 122, 122, 53, 112, 110, 111, 114, 121, 110, 113, 103, 108, 104, 122, 109, 115, 112, 51, 51>>,
    \* "f5lxx1zz5pnorynqglhzmsp34"
    <<102, 53, 108, 120, 120, 49, 122, 122, 53, 112, 110, 111, 114, 121, 110, 113, 103, 108, 104, 122, 109, 115, 112, 51, 52>>,
    \* "F5LXX1ZZ5PNORYNQGLHZMSP34"
    <<70, 53, 76, 88, 88, 49, 90, 90, 53, 80, 78, 79, 82, 89, 78, 81, 71, 76, 72, 90, 77, 83, 80, 51, 52>>,
    \* "zzzzzzzzzzzzzzzzzzzzzzzzz"
    <<122, 122, 122, 122, 122, 122, 122, 122, 122, 122, 122, 122, 122, 122, 122, 122, 122, 122, 122, 122, 122, 122, 122, 122, 122>>,
    \* "3UD3GTVGOLIMGU9LAH6AIE99O"
    <<51, 85, 68, 51, 71, 84, 86, 71, 79, 76, 73, 77, 71, 85, 57, 76, 65, 72, 54, 65, 73, 69, 57, 57, 79>>,
    \* "7ZZZZZZZZZZZZZZZZZZZZZZZZZ"
    <<55, 90, 90, 90, 90, 90, 90, 90, 90, 90, 90, 90, 90, 90, 90, 90, 90, 90, 90, 90, 90, 90, 90, 90, 90, 90>>,
    \* "80000000000000000000000000"
    <<56, 48, 48, 48, 48, 48, 48, 48, 48, 48, 48, 48, 48, 48, 48, 48, 48, 48, 48, 48, 48, 48, 48, 48, 48, 48>>,
    \* "ZZZZZZZZZZZZZZZZZZZZZZZZZZ"
    <<90, 90, 90, 90, 90, 90, 90, 90, 90, 90, 90, 90, 90, 90, 90, 90, 90, 90, 90, 90, 90, 90, 90, 90, 90, 90>>,
    \* "g0000000000000000000000000"
    <<103, 48, 48, 48, 48, 48, 48, 48, 48, 48, 48, 48, 48, 48, 48, 48, 48, 48, 48, 48, 48, 48, 48, 48, 48, 48>>,
    \* "0000000000000000000000000U"
    <<48, 48, 48, 48, 48, 48, 48, 48, 48, 48, 48, 48, 48, 48, 48, 48, 48, 48, 48, 48, 48, 48, 48, 48, 48, 85>>,
    \* "u0000000000000000000000000"
    <<117, 48, 48, 48, 48, 48, 48, 48, 48, 48, 48, 48, 48, 48, 48, 48, 48, 48, 48, 48, 48, 48, 48, 48, 48, 48>>,
    \* "OILoil00000000000000000001"
    <<79, 73, 76, 111, 105, 108, 48, 48, 48, 48, 48, 48, 48, 48, 48, 48, 48, 48, 48, 48, 48, 48, 48, 48, 48, 49>>,
    \* "not-a-uuid"
    <<110, 111, 116, 45, 97, 45, 117, 117, 105, 100>>,
    \* ""
    <<>>,
    \* "E7A1D63B711744238988AFCF12161878"
    <<69, 55, 65, 49, 68, 54, 51, 66, 55, 49, 49, 55, 52, 52, 50, 51, 56, 57, 56, 56, 65, 70, 67, 70, 49, 50, 49, 54, 49, 56, 55, 56>>,
    \* "e7a1d63b-7117-4423-8988-AFCF12161878"
    <<101, 55, 97, 49, 100, 54, 51, 98, 45, 55, 49, 49, 55, 45, 52, 52, 50, 51, 45, 56, 57, 56, 56, 45, 65, 70, 67, 70, 49, 50, 49, 54, 49, 56, 55, 56>>,
    \* "e7a1d63b-7117-4423-8988afcf-12161878"
    <<101, 55, 97, 49, 100, 54, 51, 98, 45, 55, 49, 49, 55, 45, 52, 52, 50, 51, 45, 56, 57, 56, 56, 97, 102, 99, 102, 45, 49, 50, 49, 54, 49, 56, 55, 56>>,
    \* "{e7a1d63b-7117-4423-8988-afcf12161878]"
    <<123, 101, 55, 97, 49, 100, 54, 51, 98, 45, 55, 49, 49, 55, 45, 52, 52, 50, 51, 45, 56, 57, 56, 56, 45, 97, 102, 99, 102, 49, 50, 49, 54, 49, 56, 55, 56, 93>>,
    \* "URN:UUID:E7A1D63B-7117-4423-8988-AFCF12161878"
    <<85, 82, 78, 58, 85, 85, 73, 68, 58, 69, 55, 65, 49, 68, 54, 51, 66, 45, 55, 49, 49, 55, 45, 52, 52, 50, 51, 45, 56, 57, 56, 56, 45, 65, 70, 67, 70, 49, 50, 49, 54, 49, 56, 55, 56>>,
    \* "Urn:Uuid:E7a1d63B-7117-4423-8988-AfCf12161878"
    <<85, 114, 110, 58, 85, 117, 105, 100, 58, 69, 55, 97, 49, 100, 54, 51, 66, 45, 55, 49, 49, 55, 45, 52, 52, 50, 51, 45, 56, 57, 56, 56, 45, 65, 102, 67, 102, 49, 50, 49, 54, 49, 56, 55, 56>>,
    \* "urn-uuid:e7a1d63b-7117-4423-8988-afcf12161878"
    <<117, 114, 110, 45, 117, 117, 105, 100, 58, 101, 55, 97, 49, 100, 54, 51, 98, 45, 55, 49, 49, 55, 45, 52, 52, 50, 51, 45, 56, 57, 56, 56, 45, 97, 102, 99, 102, 49, 50, 49, 54, 49, 56, 55, 56>>,
    \* "e7a1d63b711744238988afcf1216187g"
    <<101, 55, 97, 49, 100, 54, 51, 98, 55, 49, 49, 55, 52, 52, 50, 51, 56, 57, 56, 56, 97, 102, 99, 102, 49, 50, 49, 54, 49, 56, 55, 103>>,
    \* "e7a1d63b-7117-4423-8988-afcf121618"
    <<101, 55, 97, 49, 100, 54, 51, 98, 45, 55, 49, 49, 55, 45, 52, 52, 50, 51, 45, 56, 57, 56, 56, 45, 97, 102, 99, 102, 49, 50, 49, 54, 49, 56>>}

\* code units written over one place of a formatted string: F u -
EditChars == {70, 117, 45}

toUpperCase(s) == [k \in 1..Len(s) |-> IF s[k] \in 97..122 THEN s[k] - 32 ELSE s[k]]

Formatters == {"toString", "toHex", "toHyphenated", "toBraced", "toUrn", "toCrockford"}

\* the method named f, called on the instance that wraps value
Call(f, value) ==
    CASE f = "toString"     -> toString(value)
      [] f = "toHex"        -> toHex(value)
      [] f = "toHyphenated" -> toHyphenated(value)
      [] f = "toBraced"     -> toBraced(value)
      [] f = "toUrn"        -> toUrn(value)
      [] f = "toCrockford"  -> toCrockford(value)
      [] f = "toBytes"      -> toBytes(value)

----------------------------------------------------------------------------
(* The callers of the library.                                             *)

None == Thrown("none", "")

CBIdle == [CBStart(<<>>, 0, 0, 0) EXCEPT !.pc = "idle"]

Init ==
    /\ cb = CBIdle
    /\ pc = "idle" /\ via = "none" /\ arg = <<>> /\ orig = None
    /\ fmt = "none" /\ res = None /\ text = <<>> /\ edited = FALSE
    /\ inst = None /\ fmt2 = "none" /\ res2 = None
    /\ arg2 = <<>> /\ orig2 = None

\* the caller keeps what the call how(a) gave it
Made(how, a, r) ==
    /\ pc' = "made" /\ via' = how /\ arg' = a /\ orig' = r
    /\ UNCHANGED <<cb, fmt, res, text, edited, inst, fmt2, res2, arg2, orig2>>

CallFromBytes ==
    /\ pc = "idle"
    /\ \E b \in ByteInputs : Made("fromBytes", b, fromBytes(b))

CallFromDigitValues ==
    /\ pc = "idle"
    /\ \E d \in DigitInputs : Made("fromDigitValues", d, fromDigitValues(d))

CallConstructor ==
    /\ pc = "idle"
    /\ \E s \in ConstructorInputs : Made("constructor", s, Uuid25(s))

\* a formatter or toBytes called on the instance that was made
CallFormat ==
    /\ pc = "made" /\ orig.kind = "Uuid25"
    /\ \E f \in Formatters \cup {"toBytes"} : fmt' = f /\ res' = Call(f, orig.value)
    /\ text' = IF res'.kind = "string" THEN res'.value ELSE <<>>
    /\ pc' = "formatted"
    /\ UNCHANGED <<cb, via, arg, orig, edited, inst, fmt2, res2, arg2, orig2>>

\* a string from elsewhere
Input ==
    /\ pc = "idle"
    /\ \E s \in RawStrings : text' = s
    /\ pc' = "formatted" /\ fmt' = "raw" /\ res' = None
    /\ UNCHANGED <<cb, via, arg, orig, edited, inst, fmt2, res2, arg2, orig2>>

\* a string a formatter returned may be changed once before it is parsed
CanEdit == pc = "formatted" /\ via = "fromBytes" /\ res.kind = "string" /\ ~edited

Edit(t) ==
    /\ text' = t /\ edited' = TRUE
    /\ UNCHANGED <<cb, pc, via, arg, orig, fmt, res, inst, fmt2, res2, arg2, orig2>>

EditReplace ==
    /\ CanEdit
    /\ \E p \in 1..Len(text), c \in EditChars : text[p] # c /\ Edit([text EXCEPT ![p] = c])

EditTruncate == CanEdit /\ Edit(SubSeq(text, 1, Len(text) - 1))

EditAppend == CanEdit /\ \E c \in EditChars : Edit(Append(text, c))

EditUpperCase == CanEdit /\ toUpperCase(text) # text /\ Edit(toUpperCase(text))

EditLowerCase == CanEdit /\ toLowerCase(text) # text /\ Edit(toLowerCase(text))

CallParse ==
    /\ pc = "formatted" /\ (fmt = "raw" \/ res.kind = "string")
    /\ inst' = parse(text)
    /\ pc' = "parsed"
    /\ UNCHANGED <<cb, via, arg, orig, fmt, res, text, edited, fmt2, res2, arg2, orig2>>

\* toBytes, toHex or toCrockford called on the instance that parse returned
CallFormat2 ==
    /\ pc = "parsed" /\ inst.kind = "Uuid25"
    /\ \E f \in {"toBytes", "toHex", "toCrockford"} :
          fmt2' = f /\ res2' = Call(f, inst.value)
    /\ pc' = "final"
    /\ UNCHANGED <<cb, via, arg, orig, fmt, res, text, edited, inst, arg2, orig2>>

Next ==
    \/ CallFromBytes \/ CallFromDigitValues \/ CallConstructor \/ CallFormat
    \/ Input \/ EditReplace \/ EditTruncate \/ EditAppend \/ EditUpperCase
    \/ EditLowerCase \/ CallParse \/ CallFormat2

Spec == Init /\ [][Next]_vars

----------------------------------------------------------------------------
(* Two byte arrays, for the order of their canonical strings.              *)

\* b with one byte raised by one
Bump(b, j) == [b EXCEPT ![j] = (@ + 1) % 256]

OrdInputs == Seeds \cup {Bump(b, j) : b \in Seeds, j \in {1, 9, 16}}

OrdFirst ==
    /\ pc = "idle"
    /\ \E b \in OrdInputs : Made("fromBytes", b, fromBytes(b))

OrdSecond ==
    /\ pc = "made"
    /\ \E b \in OrdInputs : arg2' = b /\ orig2' = fromBytes(b)
    /\ pc' = "pair"
    /\ UNCHANGED <<cb, via, arg, orig, fmt, res, text, edited, inst, fmt2, res2>>

NextOrd == OrdFirst \/ OrdSecond

SpecOrd == Init /\ [][NextOrd]_vars

----------------------------------------------------------------------------
(* convertBase on its own, step by step.                                   *)

\* the longest src and the largest dstSize of the calls with short arrays
MaxSrcLen == 7

MaxDstSize == 8

CBBases == {2, 10, 36, 256}

\* digit arrays of length n in base b
SrcPatterns(n, b) ==
    {Zeros(n), [k \in 1..n |-> b - 1], [k \in 1..n |-> IF k = 1 THEN 1 ELSE 0],
     [k \in 1..n |-> IF k = n THEN 1 ELSE 0], [k \in 1..n |-> (k * k * 7 + 3) % b]}

Rest == <<pc, via, arg, orig, fmt, res, text, edited, inst, fmt2, res2, arg2, orig2>>

\* a call with short arrays
CallShort ==
    /\ cb.pc = "idle" /\ UNCHANGED Rest
    /\ \E sb \in CBBases, db \in CBBases, n \in 0..MaxSrcLen, size \in 0..MaxDstSize :
          \E src \in SrcPatterns(n, sb) : cb' = CBStart(src, sb, db, size)

\* the value fromBytes(b) wraps, as base-36 digits
CanonicalDigits(b) == decodeDigitChars(fromBytes(b).value, 36).dst

\* one of the calls the library makes, on a seed
SiteCalls(b) ==
    {CBStart(b, 256, 36, 25),
     CBStart(CanonicalDigits(b), 36, 256, 16),
     CBStart(CanonicalDigits(b), 36, 16, 32),
     CBStart(CanonicalDigits(b), 36, 32, 26),
     CBStart(decodeDigitChars(toHex(fromBytes(b).value).value, 16).dst, 16, 36, 25),
     CBStart(decodeCrockfordChars(toCrockford(fromBytes(b).value).value).dst, 32, 36, 25)}

CallSite ==
    /\ cb.pc = "idle" /\ UNCHANGED Rest
    /\ \E b \in Seeds : \E c \in SiteCalls(b) : cb' = c

\* a call with any pair of bases: the word size depends on nothing else
CallBases ==
    /\ cb.pc = "idle" /\ UNCHANGED Rest
    /\ \E sb \in 2..256, db \in 2..256 : cb' = CBStart(<<>>, sb, db, 0)

\* a call with a base out of range or with a digit that is none of its base
CallInvalid ==
    /\ cb.pc = "idle" /\ UNCHANGED Rest
    /\ \E c \in {CBStart(<<1>>, 1, 36, 1), CBStart(<<1>>, 36, 257, 1),
              CBStart(<<1, 36, 1>>, 36, 256, 2),
              CBStart(<<0, 0, 0, 0, 0, 0, 256>>, 256, 36, 2)} : cb' = c

StepEntry == cb.pc = "entry" /\ cb' = CBEntry(cb) /\ UNCHANGED Rest

StepWordSize == cb.pc = "wordsize" /\ cb' = CBWordSize(cb) /\ UNCHANGED Rest

StepAlloc == cb.pc = "alloc" /\ cb' = CBAlloc(cb) /\ UNCHANGED Rest

StepOuter == cb.pc = "outer" /\ cb' = CBOuter(cb) /\ UNCHANGED Rest

StepAccumulate == cb.pc = "acc" /\ cb' = CBAccumulate(cb) /\ UNCHANGED Rest

StepSweep == cb.pc = "sweep" /\ cb' = CBSweep(cb) /\ UNCHANGED Rest

StepCheck == cb.pc = "check" /\ cb' = CBCheck(cb) /\ UNCHANGED Rest

NextCB ==
    \/ CallShort \/ CallSite \/ CallBases \/ CallInvalid
    \/ StepEntry \/ StepWordSize \/ StepAlloc \/ StepOuter
    \/ StepAccumulate \/ StepSweep \/ StepCheck

SpecCB == Init /\ [][NextCB]_vars

----------------------------------------------------------------------------
(* Numbers of any size, for stating what a conversion must give: a number  *)
(* is a sequence of limbs below 4096, least significant first.             *)

RECURSIVE BigMulAdd(_, _, _)
\* a * k + c
BigMulAdd(a, k, c) ==
    IF a = <<>> THEN <<>>
    ELSE <<(a[1] * k + c) % 4096>> \o BigMulAdd(Tail(a), k, (a[1] * k + c) \div 4096)

RECURSIVE BigVal(_, _, _)
BigVal(digits, base, acc) ==
    IF digits = <<>> THEN acc
    ELSE BigVal(Tail(digits), base, BigMulAdd(acc, base, Head(digits)))

\* the number digits denotes in base, most significant digit first, in n limbs
ValueOf(digits, base, n) == BigVal(digits, base, Zeros(n))

\* base^e in n limbs
Power(base, e, n) == ValueOf(<<1>> \o Zeros(e), base, n)

BigLess(a, b) ==
    \E j \in 1..Len(a) : a[j] < b[j] /\ \A m \in (j + 1)..Len(a) : a[m] = b[m]

NumLess(a, b) == NumLeq(a, b) /\ a # b

\* a < b as big-endian unsigned integers, for byte arrays of one length
BigEndianLess(a, b) ==
    \E j \in 1..Len(a) : a[j] < b[j] /\ \A m \in 1..(j - 1) : a[m] = b[m]

HasUpper(s) == \E k \in 1..Len(s) : s[k] \in 65..90

HasLower(s) == \E k \in 1..Len(s) : s[k] \in 97..122

----------------------------------------------------------------------------
(* The properties.                                                         *)

\* C1: round trip.  For every 16-byte array v and every textual format F,
\* parse(F(fromBytes(v))) equals fromBytes(v), and toBytes of it is v again.
RoundTrip ==
    (via = "fromBytes" /\ orig.kind = "Uuid25" /\ fmt \in Formatters /\ ~edited)
    => /\ pc \in {"parsed", "final"} => inst = orig
       /\ pc = "final" /\ fmt2 = "toBytes" => res2 = Returned("bytes", arg)

RoundTripCase ==
    /\ pc = "final" /\ via = "fromBytes" /\ ~edited /\ fmt = "toCrockford"
    /\ fmt2 = "toBytes" /\ arg = Seed(4) /\ res2.value = Seed(4)

\* C2: the encoding preserves order.  a < b as big-endian unsigned integers
\* iff the canonical string of fromBytes(a) is less than that of
\* fromBytes(b), and the strings are equal iff a = b.
OrderPreserving ==
    pc = "pair"
    => /\ orig.kind = "Uuid25" /\ orig2.kind = "Uuid25"
       /\ BigEndianLess(arg, arg2) <=> StrLess(orig.value, orig2.value)
       /\ arg = arg2 <=> orig.value = orig2.value

OrderCase ==
    /\ pc = "pair" /\ arg = Seed(3) /\ arg2 = Bump(Seed(3), 16)
    /\ StrLess(orig.value, orig2.value)

IsCanonical(v) ==
    /\ Len(v) = 25
    /\ \A k \in 1..Len(v) : v[k] \in 48..57 \/ v[k] \in 97..122
    /\ StrLeq(v, MAX)

\* C3: every instance, whatever made it (the constructor, fromDigitValues,
\* fromBytes, parse), wraps a canonical string: 25 characters over 0-9a-z,
\* not above MAX.
AlwaysCanonical ==
    /\ orig.kind = "Uuid25" => IsCanonical(orig.value)
    /\ inst.kind = "Uuid25" => IsCanonical(inst.value)

\* the digits of a well-formed Crockford string denote more than 2^128 - 1
ExceedsBits(t) ==
    ~BigLess(ValueOf([k \in 1..Len(t) |-> CROCKFORD_DECODE_MAP(t[k])], 32, 12),
             Power(256, 16, 12))

OverflowingText(t) ==
    \/ Len(t) = 25 /\ AllIn(t, 1, 25, Alnum) /\ StrLess(MAX, toLowerCase(t))
    \/ /\ Len(t) = 26 /\ AllIn(t, 1, 26, Alnum)
       /\ \A k \in 1..26 : CROCKFORD_DECODE_MAP(t[k]) < 32
       /\ ExceedsBits(t)

\* C4: whenever the 128-bit bound check fails, parse fails with a
\* SyntaxError: for a 25-character base-36 string above MAX and for a
\* well-formed 26-character Crockford string that denotes more than 2^128 - 1.
OverflowIsSyntaxError ==
    (pc = "parsed" /\ OverflowingText(text)) => inst.kind = "SyntaxError"

\* the shapes of the six formats
WellShaped(t) ==
    \/ Len(t) \in {25, 26} /\ AllIn(t, 1, Len(t), Alnum)
    \/ Len(t) = 32 /\ AllIn(t, 1, 32, HexDigit)
    \/ Len(t) = 36 /\ MatchGroups(t, 0)
    \/ Len(t) = 38 /\ t[1] = 123 /\ t[38] = 125 /\ MatchGroups(t, 1)
    \/ Len(t) = 45 /\ toLowerCase(SubSeq(t, 1, 9)) = UrnPrefix /\ MatchGroups(t, 9)

\* C5: parse of a string whose length is none of 25, 26, 32, 36, 38, 45, or
\* that does not have the shape of its length, fails with the one SyntaxError.
ShapeErrors ==
    (pc = "parsed" /\ ~WellShaped(text)) => inst = newParseError

ShapeErrorCase ==
    /\ pc = "parsed" /\ edited /\ Len(text) = 36 /\ text[9] # 45
    /\ inst = newParseError

SameOutcome(a, b) == IF a.kind = "Uuid25" THEN b = a ELSE b.kind # "Uuid25"

\* C6: case insensitivity.  parse(s), parse(uppercase(s)) and
\* parse(lowercase(s)) all return equal values or all fail.
CaseInsensitive ==
    pc = "parsed"
    => /\ SameOutcome(inst, parse(toUpperCase(text)))
       /\ SameOutcome(inst, parse(toLowerCase(text)))

CaseInsensitiveCase ==
    /\ pc = "parsed" /\ inst.kind = "Uuid25" /\ HasUpper(text) /\ HasLower(text)
    /\ Len(text) = 45 /\ HasUpper(SubSeq(text, 1, 9))

\* C7: a character the decoder maps to no digit makes parse fail with a
\* SyntaxError: parse of 26 alphanumeric characters with a U or u among them.
UnmappedIsSyntaxError ==
    (/\ pc = "parsed" /\ Len(text) = 26 /\ AllIn(text, 1, 26, Alnum)
     /\ \E k \in 1..26 : text[k] \in {85, 117})
    => inst.kind = "SyntaxError"

ValidCall(s) ==
    /\ s.srcBase \in 2..256 /\ s.dstBase \in 2..256
    /\ \A k \in 1..Len(s.src) : s.src[k] \in 0..(s.srcBase - 1)

Limbs(s) == Len(s.src) + s.dstSize + 2

\* the value of src is at least dstBase^dstSize
TooBig(s) ==
    ~BigLess(ValueOf(s.src, s.srcBase, Limbs(s)), Power(s.dstBase, s.dstSize, Limbs(s)))

\* what convertBase returns: dstSize digits below dstBase of the value of src
RightResult(s) ==
    /\ Len(s.dst) = s.dstSize
    /\ \A k \in 1..Len(s.dst) : s.dst[k] \in 0..(s.dstBase - 1)
    /\ ValueOf(s.dst, s.dstBase, Limbs(s)) = ValueOf(s.src, s.srcBase, Limbs(s))

\* C8 as stated: convertBase returns dstSize digits of the value of src, for
\* every length of src, and fails with 'too small dst' exactly when the
\* value of src is at least dstBase^dstSize.
ConvertBaseAsStated ==
    (ValidCall(cb) /\ cb.pc \in {"done", "fail"})
    => /\ cb.pc = "done" => RightResult(cb)
       /\ cb.pc = "fail" => cb.err = "too small dst"
       /\ cb.pc = "fail" <=> TooBig(cb)

\* C8 amended: ... and fails with 'too small dst' exactly when the value of
\* src is at least dstBase^dstSize or src is not empty and dstSize is 0.
ConvertBaseCorrect ==
    (ValidCall(cb) /\ cb.pc \in {"done", "fail"})
    => /\ cb.pc = "done" => RightResult(cb)
       /\ cb.pc = "fail" => cb.err = "too small dst"
       /\ cb.pc = "fail" <=> (TooBig(cb) \/ (cb.src # <<>> /\ cb.dstSize = 0))

\* a conversion of several words, the first of them short, that ends well
ConvertBaseCase ==
    /\ cb.pc = "done" /\ ValidCall(cb) /\ Len(cb.src) > cb.wordLen
    /\ Len(cb.src) % cb.wordLen # 0 /\ cb.dst[1] # 0

\* C9: the word size keeps every intermediate value exact: wordBase *
\* dstBase <= MAX_SAFE_INTEGER, the carry that enters a step of the sweep is
\* below wordBase, and carry + dst[i] * wordBase is never above
\* MAX_SAFE_INTEGER.
ExactArithmetic ==
    /\ cb.pc \in {"alloc", "outer", "acc", "sweep", "check", "done"}
       => NumLeq(NumMul(cb.wordBase, cb.dstBase), MAX_SAFE_INTEGER)
    /\ (cb.pc = "sweep" /\ cb.i >= 0)
       => /\ NumLess(cb.carry, cb.wordBase)
          /\ NumLeq(SweepSum(cb), MAX_SAFE_INTEGER)

ExactArithmeticCase ==
    /\ cb.pc = "sweep" /\ cb.i >= 0 /\ Len(cb.src) = 16 /\ cb.wordHead > 0
    /\ cb.carry # NumZero /\ cb.dst[cb.i + 1] # 0

\* what a formatter must return
WellFormed(f, r) ==
    CASE f = "toBytes" ->
           r.kind = "bytes" /\ Len(r.value) = 16 /\ \A k \in 1..16 : r.value[k] \in 0..255
      [] f = "toHex" ->
           /\ r.kind = "string" /\ Len(r.value) = 32
           /\ \A k \in 1..32 : \E d \in 1..16 : r.value[k] = HexDigits[d]
      [] f = "toCrockford" ->
           /\ r.kind = "string" /\ Len(r.value) = 26
           /\ \A k \in 1..26 : \E d \in 1..32 : r.value[k] = CrockfordDigits[d]
      [] OTHER -> r.kind = "string"

\* C10: on every value that parse, fromBytes or fromDigitValues returned the
\* formatters are total and of fixed width (toBytes 16 bytes, toHex 32
\* characters over 0-9a-f, toCrockford 26 characters of its alphabet), and
\* fromBytes on 16 bytes in 0..255 fails no assertion.
FormattersTotal ==
    /\ (pc = "formatted" /\ via \in {"fromBytes", "fromDigitValues"}) => WellFormed(fmt, res)
    /\ pc = "final" => WellFormed(fmt2, res2)
    /\ (via = "fromBytes" /\ Len(arg) = 16 /\ \A k \in 1..16 : arg[k] \in 0..255)
       => orig.kind = "Uuid25"

FormattersTotalCase ==
    /\ pc = "final" /\ fmt = "raw" /\ Len(text) = 26 /\ fmt2 = "toCrockford"
    /\ res2.kind = "string" /\ res2.value # text

=============================================================================
